---- MODULE Spec2Model ----
(***************************************************************************)
(* Formwork-set sizing (smartform_ai).  The element table is loaded row by *)
(* row, optimize_formwork_sets is invoked on it, and the returned result   *)
(* table is kept in `results`.  Dates are day numbers; money is integral.  *)
(***************************************************************************)
EXTENDS Integers, Sequences, FiniteSets, TLC

\* ---------------------------------------------------------------- bounds
MaxElems == 3          \* rows of the element table
MaxDay   == 2          \* casting dates are day 0 .. MaxDay
MaxR     == 2          \* reuse_cycle_days ranges over 0 .. MaxR
MaxK     == 2          \* a lifetime limit ranges over 1 .. MaxK
MaxRaw   == 4          \* rows of a table handed to detect_repetitions
MaxLead  == 8          \* lead_time_days ranges up to MaxLead
MaxSaved == 3          \* save_project calls on the project library
MaxClock == 3          \* the wall clock runs over 0 .. MaxClock ticks
TicksPerSecond == 2    \* resolution of the wall clock
MaxBack  == 6          \* today is at most MaxBack days before the first cast

\* ------------------------------------------------------- program constants
Unlimited  == -1       \* max_reuse_count default: no lifetime limit
ColumnCost == 1200     \* Formwork_Cost_per_Set of a Column
SlabCost   == 3500     \* Formwork_Cost_per_Set of a Slab
NaN        == -1       \* a missing number (float NaN); every cost is positive
SlugLen    == 30       \* characters of the name kept in a project id
StartDay   == 20520    \* Casting_Date 0 as days since 1970-01-01: 2026-03-08

None     == "None"     \* Python None (zone_col default)
NullZone == "NaN"      \* a missing zone label in the Zone column

ClusterIds == <<"CL-001", "CL-002">>
Clusters   == {ClusterIds[i] : i \in DOMAIN ClusterIds}
ZoneLabels == {"Zone-A", NullZone}
Days       == 0 .. MaxDay

\* Zone names a result row can carry, in the order groupby sorts them.
ZoneNames == <<"All", "Default", "Zone-A", "Zone-B">>

\* The element table's columns that the optimizer may be pointed at.
Columns == {"Zone"}

CostOf(c) == IF c = "CL-001" THEN ColumnCost ELSE SlabCost

\* round(cost * 0.85, 0)
ReplacementOf(cost) == (cost * 85) \div 100

\* The rows the import layer can hand to the core.
Elems ==
  { [Cluster_ID |-> c, Zone |-> z, Casting_Date |-> d,
     Formwork_Cost_per_Set |-> CostOf(c),
     Replacement_Cost_per_Set |-> ReplacementOf(CostOf(c))] :
       c \in Clusters, z \in ZoneLabels, d \in Days }

\* The rows of a CSV whose Replacement_Cost_per_Set column has blank cells:
\* read_csv reads a blank cell as NaN.
PricedElems ==
  Elems \cup
  { [Cluster_ID |-> c, Zone |-> z, Casting_Date |-> d,
     Formwork_Cost_per_Set |-> CostOf(c),
     Replacement_Cost_per_Set |-> NaN] :
       c \in Clusters, z \in ZoneLabels, d \in Days }

\* Outcomes of prob.solve(): the status PuLP reports, or an exception.
\* "Not Solved" stands for every status other than Optimal.  One outcome is
\* drawn per invocation; the solver is deterministic, so a repeated call on
\* the same problem ends the same way.
SolverOutcomes == {"Optimal", "Not Solved", "Exception"}

ReuseCycles == 0 .. MaxR
ReuseLimits == {Unlimited} \cup (1 .. MaxK)
\* "Area" names a column the element table does not have.
ZoneCols    == {None, "Zone", "Area"}

VARIABLES
  elements,          \* df_elements: sequence of element rows
  hasReplacement,    \* whether the table has a Replacement_Cost_per_Set column
  runs,              \* invocations of optimize_formwork_sets so far
  reuse_cycle_days,  \* arguments of the last invocation
  max_reuse_count,
  zone_col,
  solver,            \* how the solves of the last invocation ended
  results,           \* table returned by the last invocation
  prev_results,      \* table returned by the invocation before it
  raw_elements,      \* df_elements handed to detect_repetitions
  tie_order,         \* how this build's sort orders equal Frequency values
  detections,        \* invocations of detect_repetitions so far
  df_clustered,      \* first value returned by the last invocation
  cluster_summary,   \* second value returned by the last invocation
  prev_clustered,    \* the two values returned by the invocation before it
  prev_summary,
  lead_time_days,    \* argument of generate_procurement_schedule
  today,             \* date.today() at the call, as days since 1970-01-01
  schedule_call,     \* "none", or how the call ended: "returned", "raised"
  df_schedule,       \* the table it returned
  prev_call,         \* how the call before the last one ended, and
  prev_schedule,     \* the table it returned
  sim_call,          \* "none" or "returned": simulate_timeline
  df_timeline,       \* the timeline it returned
  kit_call,          \* "none" or "returned": assign_kits
  df_kitted,         \* the kit plan it returned
  registry,          \* registry.json: the list of project entries
  library_files,     \* the CSV files under project_library/
  clock,             \* datetime.now(), in ticks
  lib_call,          \* "none", "save" or "delete": the last library call
  lib_arg,           \* the id it returned (save) or was given (delete)
  prev_registry      \* registry.json before the last library call

coreVars == <<elements, hasReplacement, runs, reuse_cycle_days,
              max_reuse_count, zone_col, solver, results, prev_results>>

repVars == <<raw_elements, tie_order, detections, df_clustered,
             cluster_summary, prev_clustered, prev_summary>>

schedVars == <<lead_time_days, today, schedule_call, df_schedule,
               prev_call, prev_schedule>>

planVars == <<sim_call, df_timeline, kit_call, df_kitted>>

libVars == <<registry, library_files, clock, lib_call, lib_arg, prev_registry>>

\* What a call leaves unchanged of the optimizer's variables besides the
\* element table.
coreRest == <<hasReplacement, runs, reuse_cycle_days, max_reuse_count,
              zone_col, solver, results, prev_results>>

vars == <<elements, hasReplacement, runs, reuse_cycle_days, max_reuse_count,
          zone_col, solver, results, prev_results,
          raw_elements, tie_order, detections, df_clustered, cluster_summary,
          prev_clustered, prev_summary,
          lead_time_days, today, schedule_call, df_schedule,
          prev_call, prev_schedule,
          sim_call, df_timeline, kit_call, df_kitted,
          registry, library_files, clock, lib_call, lib_arg, prev_registry>>

\* ------------------------------------------------------------ arithmetic
Max(a, b) == IF a >= b THEN a ELSE b

SetMax(S) == CHOOSE x \in S : \A y \in S : y <= x
SetMin(S) == CHOOSE x \in S : \A y \in S : x <= y

\* math.ceil(a / b) for a >= 0, b > 0
CeilDivPlusOne(a, b) == a \div b + 1
CeilDiv(a, b) == (a + b - 1) \div b

\* math.floor(a / b) for a >= 0, b > 0
FloorDivUp(a, b) == (a + b - 1) \div b
FloorDiv(a, b) == a \div b

RECURSIVE SumRange(_, _, _)
\* sum(pours_array[lo : hi + 1]) with 0-based lo, hi; empty when lo > hi
SumRange(pours, lo, hi) ==
  IF lo > hi THEN 0 ELSE pours[hi + 1] + SumRange(pours, lo, hi - 1)

SumSeq(s) == SumRange(s, 0, Len(s) - 1)

\* ------------------------------------------------ grouping and demand series
ZoneOfAnyColumn(e, zc) ==
  IF zc # None
    THEN (IF e.Zone = NullZone THEN "Default" ELSE e.Zone)
    ELSE "All"
\* df['_zone']
ZoneOf(e, zc) ==
  IF zc # None /\ zc \in Columns
    THEN (IF e.Zone = NullZone THEN "Default" ELSE e.Zone)
    ELSE "All"

KeyOf(e, zc) == <<e.Cluster_ID, ZoneOf(e, zc)>>

GroupKeysDropNull(els, zc) ==
  { KeyOf(els[i], zc) :
      i \in { j \in DOMAIN els : ZoneOf(els[j], zc) # "Default" } }
\* the (cluster, zone) groups of daily_demand
GroupKeys(els, zc) == { KeyOf(els[i], zc) : i \in DOMAIN els }

\* mask: the rows of the table that belong to the pair
Mask(els, zc, pair) == { i \in DOMAIN els : KeyOf(els[i], zc) = pair }

\* Daily_Pours of the pair on date d
DailyPours(els, zc, pair, d) ==
  Cardinality({ i \in Mask(els, zc, pair) : els[i].Casting_Date = d })

PairDates(els, zc, pair) == { els[i].Casting_Date : i \in Mask(els, zc, pair) }

MinDate(els, zc, pair) == SetMin(PairDates(els, zc, pair))
MaxDate(els, zc, pair) == SetMax(PairDates(els, zc, pair))

RECURSIVE SparseCounts(_, _, _, _)
SparseCounts(els, zc, pair, d) ==
  IF d > MaxDate(els, zc, pair) THEN <<>>
  ELSE (IF DailyPours(els, zc, pair, d) > 0
          THEN <<DailyPours(els, zc, pair, d)>> ELSE <<>>)
       \o SparseCounts(els, zc, pair, d + 1)
PoursArrayNoReindex(els, zc, pair) ==
  SparseCounts(els, zc, pair, MinDate(els, zc, pair))
\* pours_array: the pair's counts reindexed over date_range(min_date, max_date)
PoursArray(els, zc, pair) ==
  [ k \in 1 .. (MaxDate(els, zc, pair) - MinDate(els, zc, pair) + 1) |->
      DailyPours(els, zc, pair, MinDate(els, zc, pair) + k - 1) ]

\* ------------------------------------------------------------- the sizing
LifeLimitLBFloor(total_pours, K) ==
  IF K > 0 THEN total_pours \div K ELSE 0
\* life_limit_lb
LifeLimitLB(total_pours, K) ==
  IF K > 0 THEN CeilDiv(total_pours, K) ELSE 0

WindowStart(i, R) == Max(0, i - R + 1)

\* active_sum of day i (0-based)
ActiveSum(pours, i, R) == SumRange(pours, WindowStart(i, R), i)

\* The constraints of the integer program on its one variable Z.
ILPFeasible(Z, pours, R, lb) ==
  /\ Z >= Max(0, lb)
  /\ \A i \in 0 .. Len(pours) - 1 : Z >= ActiveSum(pours, i, R)
  /\ lb > 0 => Z >= lb

\* value(Z) of an Optimal solve: the least feasible Z.
ILPOptimum(pours, R, lb) ==
  LET cand == 0 .. (SumSeq(pours) + Max(0, lb))
  IN  CHOOSE Z \in cand :
        /\ ILPFeasible(Z, pours, R, lb)
        /\ \A Y \in cand : ILPFeasible(Y, pours, R, lb) => Z <= Y

RECURSIVE FallbackScan(_, _, _, _)
FallbackScan(pours, R, i, acc) ==
  IF i >= Len(pours) THEN acc
  ELSE FallbackScan(pours, R, i + 1, Max(acc, ActiveSum(pours, i, R)))

SlidingWindowFallbackNoLB(pours, R, lb) == FallbackScan(pours, R, 0, 0)
\* the except branch: pure-Python sliding-window scan
SlidingWindowFallback(pours, R, lb) == FallbackScan(pours, R, 0, lb)

\* opt_sets when the solve ends with a status other than Optimal
NotOptimalSets(pours, R, lb) == lb

\* opt_sets
OptSets(pours, R, K, outcome) ==
  LET lb == LifeLimitLB(SumSeq(pours), K)
  IN  IF outcome = "Optimal" THEN ILPOptimum(pours, R, lb)
      ELSE IF outcome = "Exception" THEN SlidingWindowFallback(pours, R, lb)
      ELSE NotOptimalSets(pours, R, lb)

SetsWrittenOffNoGuard(total_pours, K) ==
  IF K > 0 THEN FloorDiv(total_pours, K)
  ELSE IF K < 0 THEN 0 - total_pours ELSE 0
\* sets_written_off
SetsWrittenOff(total_pours, K) ==
  IF K > 0 THEN FloorDiv(total_pours, K) ELSE 0

FirstOfTable(els, zc, pair) == els[1]
\* df.loc[mask, ...].iloc[0]
FirstOfPair(els, zc, pair) == els[SetMin(Mask(els, zc, pair))]

\* float arithmetic: a NaN operand gives NaN
Times(a, b) == IF a = NaN \/ b = NaN THEN NaN ELSE a * b
Plus(a, b)  == IF a = NaN \/ b = NaN THEN NaN ELSE a + b

ReplacementCost(els, hasRepl, zc, pair) ==
  IF hasRepl THEN FirstOfPair(els, zc, pair).Replacement_Cost_per_Set
  ELSE FirstOfPair(els, zc, pair).Formwork_Cost_per_Set

CostReductionPctOfOptimized(naive_cost, opt_cost) ==
  IF naive_cost > 0 THEN <<(naive_cost - opt_cost) * 100, opt_cost>> ELSE <<0, 1>>
\* Cost_Reduction_%: the quotient is kept exact, as <<numerator, denominator>>
CostReductionPct(naive_cost, opt_cost) ==
  IF naive_cost > 0 THEN <<(naive_cost - opt_cost) * 100, naive_cost>> ELSE <<0, 1>>

\* One dict appended to results.
Row(els, hasRepl, R, K, zc, outcome, pair) ==
  LET pours        == PoursArray(els, zc, pair)
      total_pours  == SumSeq(pours)
      opt_sets     == OptSets(pours, R, K, outcome)
      naive_sets   == total_pours
      cost_per_set == FirstOfPair(els, zc, pair).Formwork_Cost_per_Set
      written_off  == SetsWrittenOff(total_pours, K)
      write_off    == Times(written_off, ReplacementCost(els, hasRepl, zc, pair))
      opt_cost     == opt_sets * cost_per_set
      naive_cost   == naive_sets * cost_per_set
  IN  [ Cluster_ID                 |-> pair[1],
        Zone                       |-> pair[2],
        Required_Sets              |-> opt_sets,
        Naive_Sets                 |-> naive_sets,
        Optimized_Procurement_Cost |-> opt_cost,
        Naive_Procurement_Cost     |-> naive_cost,
        Cost_Savings               |-> naive_cost - opt_cost,
        Cost_Reduction_Pct         |-> CostReductionPct(naive_cost, opt_cost),
        Sets_Written_Off           |-> written_off,
        Write_Off_Cost             |-> write_off,
        True_Total_Cost            |-> Plus(opt_cost, write_off) ]

\* All (cluster, zone) keys in the order groupby iterates them.
SortedKeys ==
  [ k \in 1 .. (Len(ClusterIds) * Len(ZoneNames)) |->
      << ClusterIds[((k - 1) \div Len(ZoneNames)) + 1],
         ZoneNames[((k - 1) % Len(ZoneNames)) + 1] >> ]

\* results = []
ResultsCarried == results
ResultsInit == <<>>

\* The table optimize_formwork_sets returns.
OptimizeFormworkSets(els, hasRepl, R, K, zc, outcome) ==
  LET keys    == GroupKeys(els, zc)
      present == SelectSeq(SortedKeys, LAMBDA p : p \in keys)
  IN  ResultsInit \o
        [ k \in 1 .. Len(present) |->
            Row(els, hasRepl, R, K, zc, outcome, present[k]) ]

\* ------------------------------------------------- procurement_scheduler
\* pd.to_datetime(df['Casting_Date']): the timestamp of a cast date, in days.
Timestamp(d) == StartDay + d

\* ------------------------------------------------------ the caller's table
\* df = df_elements.copy(): the function works on `working`, its own copy;
\* the table the caller holds after the call is `original`.
CallerTableShared(original, working) == working
CallerTable(original, working) == original

\* df after df['Casting_Date'] = pd.to_datetime(df['Casting_Date'])
Converted(els) ==
  [ i \in DOMAIN els |->
      [ Cluster_ID               |-> els[i].Cluster_ID,
        Zone                     |-> els[i].Zone,
        Casting_Date             |-> Timestamp(els[i].Casting_Date),
        Formwork_Cost_per_Set    |-> els[i].Formwork_Cost_per_Set,
        Replacement_Cost_per_Set |-> els[i].Replacement_Cost_per_Set ] ]

\* The optimizer's df: dates converted and the _zone column added.
OptimizerFrame(els, zc) ==
  [ i \in DOMAIN els |->
      [ Cluster_ID               |-> els[i].Cluster_ID,
        Zone                     |-> els[i].Zone,
        Casting_Date             |-> Timestamp(els[i].Casting_Date),
        Formwork_Cost_per_Set    |-> els[i].Formwork_Cost_per_Set,
        Replacement_Cost_per_Set |-> els[i].Replacement_Cost_per_Set,
        zone_key                 |-> ZoneOf(els[i], zc) ] ]

\* The scheduler's df: dates converted and _zone set to the Zone column.
SchedulerFrame(els) ==
  [ i \in DOMAIN els |->
      [ Cluster_ID               |-> els[i].Cluster_ID,
        Zone                     |-> els[i].Zone,
        Casting_Date             |-> Timestamp(els[i].Casting_Date),
        Formwork_Cost_per_Set    |-> els[i].Formwork_Cost_per_Set,
        Replacement_Cost_per_Set |-> els[i].Replacement_Cost_per_Set,
        zone_key                 |-> els[i].Zone ] ]

\* strftime('%Y-%m-%d'): the text of a timestamp as <<year, month, day>>,
\* the three zero-padded fields of the string in their written order.
FormatDate(z) ==
  LET n   == z + 719468
      era == n \div 146097
      doe == n - era * 146097
      yoe == (doe - (doe \div 1460) + (doe \div 36524) - (doe \div 146096))
               \div 365
      doy == doe - (365 * yoe + (yoe \div 4) - (yoe \div 100))
      mp  == (5 * doy + 2) \div 153
      d   == doy - ((153 * mp + 2) \div 5) + 1
      m   == IF mp < 10 THEN mp + 3 ELSE mp - 9
      y   == yoe + era * 400 + (IF m <= 2 THEN 1 ELSE 0)
  IN  <<y, m, d>>

\* Order of two date strings as sort_values compares them: as text.
TextBefore(a, b) ==
  \E i \in 1 .. 3 : a[i] < b[i] /\ \A j \in 1 .. (i - 1) : a[j] = b[j]

\* subset = df.loc[mask]; _zone is the raw Zone column.
SubsetAnyZone(els, cluster, zone) ==
  { i \in DOMAIN els : els[i].Cluster_ID = cluster }
Subset(els, cluster, zone) ==
  { i \in DOMAIN els : /\ els[i].Cluster_ID = cluster
                       /\ zone # "All" => els[i].Zone = zone }

\* The status of an order that is days_to_order days away.
StatusOfStrict(days_to_order, lead) ==
  IF days_to_order < 0 THEN "URGENT"
  ELSE IF days_to_order < lead THEN "ORDER SOON"
  ELSE "PLANNED"
StatusOf(days_to_order, lead) ==
  IF days_to_order < 0 THEN "URGENT"
  ELSE IF days_to_order <= lead THEN "ORDER SOON"
  ELSE "PLANNED"

\* One dict appended to records.
Record(els, opt_row, lead, now) ==
  LET subset     == Subset(els, opt_row.Cluster_ID, opt_row.Zone)
      first_pour == SetMin({ Timestamp(els[i].Casting_Date) : i \in subset })
      order_by   == first_pour - lead
      days_to_order == order_by - now
  IN  [ Cluster_ID       |-> opt_row.Cluster_ID,
        Zone             |-> opt_row.Zone,
        Sets_To_Order    |-> opt_row.Required_Sets,
        First_Pour_Date  |-> FormatDate(first_pour),
        Order_By_Date    |-> FormatDate(order_by),
        Days_Until_Order |-> days_to_order,
        Estimated_Cost   |-> opt_row.Optimized_Procurement_Cost,
        Status           |-> StatusOf(days_to_order, lead) ]

\* records after the loop: optimization rows with an empty subset are skipped.
Records(els, opt, lead, now) ==
  LET kept == SelectSeq(opt, LAMBDA o : Subset(els, o.Cluster_ID, o.Zone) # {})
  IN  [ k \in 1 .. Len(kept) |-> Record(els, kept[k], lead, now) ]

\* status_order
StatusOrder(s) ==
  CASE s = "URGENT" -> 0 [] s = "ORDER SOON" -> 1 [] s = "PLANNED" -> 2

\* Order of two rows under sort_values(['_sort', 'Order_By_Date']).
RowBeforeByStatusOnly(a, b) == StatusOrder(a.Status) < StatusOrder(b.Status)
RowBefore(a, b) ==
  \/ StatusOrder(a.Status) < StatusOrder(b.Status)
  \/ /\ StatusOrder(a.Status) = StatusOrder(b.Status)
     /\ TextBefore(a.Order_By_Date, b.Order_By_Date)

\* The sort on several columns is stable: rows that compare equal keep the
\* order of records.
RECURSIVE SortSchedule(_)
SortSchedule(records) ==
  IF records = <<>> THEN <<>>
  ELSE LET least == { i \in DOMAIN records : \A j \in DOMAIN records :
                        ~RowBefore(records[j], records[i]) }
           pick  == SetMin(least)
       IN  <<records[pick]>>
             \o SortSchedule(SubSeq(records, 1, pick - 1)
                               \o SubSeq(records, pick + 1, Len(records)))

\* generate_procurement_schedule has not been called.
SchedIdle ==
  /\ lead_time_days = 5
  /\ today = StartDay
  /\ schedule_call = "none"
  /\ df_schedule = <<>>
  /\ prev_call = "none"
  /\ prev_schedule = <<>>

\* simulate_timeline and assign_kits have not been called.
PlanIdle ==
  /\ sim_call = "none"
  /\ df_timeline = <<>>
  /\ kit_call = "none"
  /\ df_kitted = <<>>

\* An empty library, before any call on it.
LibIdle ==
  /\ registry = <<>>
  /\ library_files = {}
  /\ clock = 0
  /\ lib_call = "none"
  /\ lib_arg = <<>>
  /\ prev_registry = <<>>

\* ---------------------------------------------------- repetition_engine
\* Element types in the order groupby sorts them.
Types == <<"Column", "Slab">>

\* The shapes an element can have (dimensions in centimetres): a base column
\* and four shapes that differ from it in exactly one grouping column.
Shapes ==
  { [Type |-> "Column", Length |-> 50, Width |-> 50, Height |-> 300],
    [Type |-> "Column", Length |-> 50, Width |-> 50, Height |-> 350],
    [Type |-> "Column", Length |-> 50, Width |-> 60, Height |-> 300],
    [Type |-> "Column", Length |-> 60, Width |-> 50, Height |-> 300],
    [Type |-> "Slab",   Length |-> 50, Width |-> 50, Height |-> 300] }

RawTables == UNION { [1 .. n -> Shapes] : n \in 0 .. MaxRaw }

\* sort_values(by='Frequency') uses an unstable sort: the order it leaves
\* equal Frequency values in is fixed by the build, not by the language.
\* "first" keeps them in group-key order, "last" reverses them.
TieOrders == {"first", "last"}

\* Cluster_ID of an element that matched no summary row in the left merge.
NoCluster == <<"NaN">>

\* group_cols
GroupColsNoHeight(e) == <<e.Type, e.Length, e.Width>>
GroupCols(e) == <<e.Type, e.Length, e.Width, e.Height>>

TypeRank(t) == CHOOSE i \in DOMAIN Types : Types[i] = t

\* groupby sorts its keys column by column.
KeyAt(k, i) == IF i = 1 THEN TypeRank(k[1]) ELSE k[i]

KeyBefore(a, b) ==
  \E i \in DOMAIN a : /\ KeyAt(a, i) < KeyAt(b, i)
                       /\ \A j \in 1 .. (i - 1) : KeyAt(a, j) = KeyAt(b, j)

RECURSIVE SortKeys(_)
SortKeys(S) ==
  IF S = {} THEN <<>>
  ELSE LET first == CHOOSE k \in S : \A o \in S \ {k} : KeyBefore(k, o)
       IN  <<first>> \o SortKeys(S \ {first})

\* df.groupby(group_cols).size().reset_index(name='Frequency')
GroupSizes(tbl) ==
  LET keys == SortKeys({ GroupCols(tbl[i]) : i \in DOMAIN tbl })
  IN  [ k \in 1 .. Len(keys) |->
          [ Key       |-> keys[k],
            Frequency |-> Cardinality({ i \in DOMAIN tbl :
                                          GroupCols(tbl[i]) = keys[k] }) ] ]

Remove(s, i) == SubSeq(s, 1, i - 1) \o SubSeq(s, i + 1, Len(s))

\* sort_values(by='Frequency', ascending=False).reset_index(drop=True)
RECURSIVE SortByFrequencyAscending(_, _)
SortByFrequencyAscending(groups, tie) ==
  IF groups = <<>> THEN <<>>
  ELSE LET low  == { i \in DOMAIN groups : \A j \in DOMAIN groups :
                       groups[i].Frequency <= groups[j].Frequency }
           pick == IF tie = "first" THEN SetMin(low) ELSE SetMax(low)
       IN  <<groups[pick]>> \o SortByFrequencyAscending(Remove(groups, pick), tie)

RECURSIVE SortByFrequency(_, _)
SortByFrequency(groups, tie) ==
  IF groups = <<>> THEN <<>>
  ELSE LET top  == { i \in DOMAIN groups : \A j \in DOMAIN groups :
                       groups[j].Frequency <= groups[i].Frequency }
           pick == IF tie = "first" THEN SetMin(top) ELSE SetMax(top)
       IN  <<groups[pick]>> \o SortByFrequency(Remove(groups, pick), tie)

\* f"CL-{(i+1):03d}" for the row at position k = i + 1: the prefix and the
\* three zero-padded digits.
ClusterLabel(k) == <<"CL-", (k \div 100) % 10, (k \div 10) % 10, k % 10>>

\* cluster_summary with its Cluster_ID column
ClusterSummary(tbl, tie) ==
  LET sorted == SortByFrequency(GroupSizes(tbl), tie)
  IN  [ k \in 1 .. Len(sorted) |->
          [ Key       |-> sorted[k].Key,
            Frequency |-> sorted[k].Frequency,
            Cluster_ID |-> ClusterLabel(k) ] ]

\* df.merge(cluster_summary[group_cols + ['Cluster_ID']], on=group_cols,
\* how='left'); the summary has one row per key.
MergeLeft(tbl, summary) ==
  [ i \in DOMAIN tbl |->
      LET hits == { k \in DOMAIN summary : summary[k].Key = GroupCols(tbl[i]) }
      IN  [ Type   |-> tbl[i].Type,  Length |-> tbl[i].Length,
            Width  |-> tbl[i].Width, Height |-> tbl[i].Height,
            Cluster_ID |-> IF hits = {} THEN NoCluster
                           ELSE summary[SetMin(hits)].Cluster_ID ] ]

\* Nothing has been handed to detect_repetitions.
RepIdle ==
  /\ raw_elements = <<>>
  /\ tie_order = "first"
  /\ detections = 0
  /\ df_clustered = <<>>
  /\ cluster_summary = <<>>
  /\ prev_clustered = <<>>
  /\ prev_summary = <<>>

\* The optimizer has not been given a table.
CoreIdle ==
  /\ elements = <<>>
  /\ hasReplacement = TRUE
  /\ runs = 0
  /\ reuse_cycle_days = 7
  /\ max_reuse_count = Unlimited
  /\ zone_col = None
  /\ solver = "Optimal"
  /\ results = <<>>
  /\ prev_results = <<>>

\* A table is ready for detect_repetitions.
InitRep ==
  /\ CoreIdle
  /\ raw_elements \in RawTables
  /\ tie_order \in TieOrders
  /\ detections = 0
  /\ df_clustered = <<>>
  /\ cluster_summary = <<>>
  /\ prev_clustered = <<>>
  /\ prev_summary = <<>>
  /\ SchedIdle
  /\ PlanIdle
  /\ LibIdle

\* detect_repetitions(df_elements), first invocation.
DetectRepetitions ==
  /\ detections = 0
  /\ prev_summary' = cluster_summary
  /\ prev_clustered' = df_clustered
  /\ cluster_summary' = ClusterSummary(raw_elements, tie_order)
  /\ df_clustered' = MergeLeft(raw_elements,
                               ClusterSummary(raw_elements, tie_order))
  /\ detections' = 1
  /\ raw_elements' =
       CallerTable(raw_elements,
                   MergeLeft(raw_elements,
                             ClusterSummary(raw_elements, tie_order)))
  /\ UNCHANGED tie_order
  /\ UNCHANGED <<coreVars, schedVars, planVars, libVars>>

\* The same call again on the same table.
DetectAgain ==
  /\ detections = 1
  /\ prev_summary' = cluster_summary
  /\ prev_clustered' = df_clustered
  /\ cluster_summary' = ClusterSummary(raw_elements, tie_order)
  /\ df_clustered' = MergeLeft(raw_elements,
                               ClusterSummary(raw_elements, tie_order))
  /\ detections' = 2
  /\ raw_elements' =
       CallerTable(raw_elements,
                   MergeLeft(raw_elements,
                             ClusterSummary(raw_elements, tie_order)))
  /\ UNCHANGED tie_order
  /\ UNCHANGED <<coreVars, schedVars, planVars, libVars>>

NextRep == DetectRepetitions \/ DetectAgain

SpecRep == InitRep /\ [][NextRep]_vars

\* -------------------------------------------------------- kitting_engine
\* Position of a Cluster_ID in sorted order.
ClusterRank(c) == CHOOSE i \in DOMAIN ClusterIds : ClusterIds[i] = c

PairBefore(x, y) == x[1] < y[1] \/ (x[1] = y[1] /\ x[2] < y[2])

\* sort_values on two columns: rows ordered by their key pairs, rows with
\* equal keys in their given order.
RECURSIVE StableSort(_, _)
StableSort(rows, keys) ==
  IF rows = <<>> THEN <<>>
  ELSE LET least == { i \in DOMAIN rows : \A j \in DOMAIN rows :
                        ~PairBefore(keys[j], keys[i]) }
           pick  == SetMin(least)
       IN  <<rows[pick]>>
             \o StableSort(Remove(rows, pick), Remove(keys, pick))

\* df.sort_values(['Cluster_ID', 'Casting_Date'])
ByClusterThenDate(rows) ==
  StableSort(rows, [ i \in DOMAIN rows |->
                       <<ClusterRank(rows[i].Cluster_ID), rows[i].Casting_Date>> ])

\* df.sort_values(['Casting_Date', 'Cluster_ID'])
ByDateThenCluster(rows) ==
  StableSort(rows, [ i \in DOMAIN rows |->
                       <<rows[i].Casting_Date, ClusterRank(rows[i].Cluster_ID)>> ])

\* A kit last used `gap` days ago can be used again.
KitAvailableAfter(gap, R) == gap > R
KitAvailable(gap, R) == gap >= R

\* f"{cluster}_Kit-{kit_no:02d}"
KitId(cluster, kit_no) ==
  <<cluster, "_Kit-", (kit_no \div 10) % 10, kit_no % 10>>

\* The inner loop over one cluster's rows, in date order: last_used[k] is
\* kit k's last cast date, counts[k] its uses so far.
RECURSIVE KitRows(_, _, _, _)
KitRows(rows, R, last_used, counts) ==
  IF rows = <<>> THEN <<>>
  ELSE
    LET cast       == rows[1].Casting_Date
        free       == { k \in DOMAIN last_used :
                          KitAvailable(cast - last_used[k], R) }
        assigned   == IF free = {} THEN Len(last_used) + 1 ELSE SetMin(free)
        days_since == IF free = {} THEN 0 ELSE cast - last_used[assigned]
        new_last   == IF free = {} THEN Append(last_used, cast)
                      ELSE [last_used EXCEPT ![assigned] = cast]
        new_counts == IF free = {} THEN Append(counts, 1)
                      ELSE [counts EXCEPT ![assigned] = @ + 1]
    IN  << [ Cluster_ID      |-> rows[1].Cluster_ID,
             Zone            |-> rows[1].Zone,
             Casting_Date    |-> cast,
             Kit_ID          |-> KitId(rows[1].Cluster_ID, assigned),
             Kit_Number      |-> assigned,
             Reuse_Count     |-> new_counts[assigned],
             Days_Since_Prev |-> days_since ] >>
          \o KitRows(Tail(rows), R, new_last, new_counts)

\* The outer loop over the clusters, in sorted order.
RECURSIVE KitGroups(_, _, _)
KitGroups(df, R, k) ==
  IF k > Len(ClusterIds) THEN <<>>
  ELSE KitRows(SelectSeq(df, LAMBDA e : e.Cluster_ID = ClusterIds[k]),
               R, <<>>, <<>>)
         \o KitGroups(df, R, k + 1)

\* The table assign_kits returns.
AssignKitsPlan(els, R) ==
  ByDateThenCluster(KitGroups(ByClusterThenDate(Converted(els)), R, 1))

\* ---------------------------------------------------- inventory_simulator
\* opt_dict: Required_Sets by Cluster_ID; of several rows with one
\* Cluster_ID the dict keeps the last.
OptDict(opt) ==
  [ c \in { opt[i].Cluster_ID : i \in DOMAIN opt } |->
      opt[SetMax({ i \in DOMAIN opt : opt[i].Cluster_ID = c })].Required_Sets ]

RECURSIVE SumValues(_, _)
SumValues(dict, keys) ==
  IF keys = {} THEN 0
  ELSE LET c == CHOOSE x \in keys : TRUE
       IN  dict[c] + SumValues(dict, keys \ {c})

\* The table simulate_timeline returns: one row per day from the first cast
\* date to the last one plus reuse_cycle_days.
Timeline(els, opt, R) ==
  LET df        == Converted(els)
      dates     == { df[i].Casting_Date : i \in DOMAIN df }
      min_date  == SetMin(dates)
      max_date  == SetMax(dates) + R
      dict      == OptDict(opt)
      avail     == SumValues(dict, DOMAIN dict)
  IN  [ k \in 1 .. (max_date - min_date + 1) |->
          LET d     == min_date + k - 1
              req   == Cardinality({ i \in DOMAIN df :
                         df[i].Casting_Date > d - R /\ df[i].Casting_Date <= d })
              fresh == Cardinality({ i \in DOMAIN df : df[i].Casting_Date = d })
          IN  [ Date           |-> d,
                Required_Sets  |-> req,
                Available_Sets |-> avail,
                Reused_Sets    |-> Max(0, req - fresh) ] ]

\* ---------------------------------------------------------------- actions
Init ==
  /\ elements = <<>>
  /\ hasReplacement \in BOOLEAN
  /\ runs = 0
  /\ reuse_cycle_days = 7
  /\ max_reuse_count = Unlimited
  /\ zone_col = None
  /\ solver = "Optimal"
  /\ results = <<>>
  /\ prev_results = <<>>
  /\ RepIdle
  /\ SchedIdle
  /\ PlanIdle
  /\ LibIdle

\* Position of a row in schedule order: by date, then cluster, then zone.
RowRank(e) ==
  (e.Casting_Date * Len(ClusterIds)
     + (CHOOSE i \in DOMAIN ClusterIds : ClusterIds[i] = e.Cluster_ID)) * 2
  + (IF e.Zone = NullZone THEN 1 ELSE 0)

\* The import layer appends a row to the element table; rows arrive in
\* schedule order.
LoadElement(e) ==
  /\ runs = 0
  /\ Len(elements) < MaxElems
  /\ elements # <<>> => RowRank(elements[Len(elements)]) <= RowRank(e)
  /\ elements' = Append(elements, e)
  /\ UNCHANGED <<hasReplacement, runs, reuse_cycle_days, max_reuse_count,
                 zone_col, solver, results, prev_results>>
  /\ UNCHANGED <<repVars, schedVars, planVars, libVars>>

\* optimize_formwork_sets(df_elements, R, K, zc), first invocation.
Optimize(R, K, zc, outcome) ==
  /\ runs = 0
  /\ Len(elements) > 0
  /\ reuse_cycle_days' = R
  /\ max_reuse_count' = K
  /\ zone_col' = zc
  /\ solver' = outcome
  /\ prev_results' = results
  /\ results' = OptimizeFormworkSets(elements, hasReplacement, R, K, zc, outcome)
  /\ runs' = 1
  /\ elements' = CallerTable(elements, OptimizerFrame(elements, zc))
  /\ UNCHANGED hasReplacement
  /\ UNCHANGED <<repVars, schedVars, planVars, libVars>>

\* The same call again: same table, same arguments, same solver behaviour.
Rerun ==
  /\ runs = 1
  /\ prev_results' = results
  /\ results' = OptimizeFormworkSets(elements, hasReplacement, reuse_cycle_days,
                                     max_reuse_count, zone_col, solver)
  /\ runs' = 2
  /\ elements' = CallerTable(elements, OptimizerFrame(elements, zone_col))
  /\ UNCHANGED <<hasReplacement, reuse_cycle_days, max_reuse_count,
                 zone_col, solver>>
  /\ UNCHANGED <<repVars, schedVars, planVars, libVars>>

Next ==
  \/ \E e \in Elems : LoadElement(e)
  \/ \E R \in ReuseCycles, K \in ReuseLimits, zc \in ZoneCols,
        outcome \in SolverOutcomes : Optimize(R, K, zc, outcome)
  \/ Rerun

Spec == Init /\ [][Next]_vars

\* The optimizer on tables whose replacement cost may be missing in a row.
LoadPriced(e) == LoadElement(e)

OptimizePriced(R, K, zc) == Optimize(R, K, zc, "Optimal")

NextPriced ==
  \/ \E e \in PricedElems : LoadPriced(e)
  \/ \E R \in 1 .. MaxR, K \in ReuseLimits, zc \in {None, "Zone"} :
        OptimizePriced(R, K, zc)

SpecPriced == Init /\ [][NextPriced]_vars

TypeOK ==
  /\ runs \in 0 .. 2
  /\ Len(elements) <= MaxElems
  /\ \A i \in DOMAIN results : results[i].Required_Sets \in Nat

\* Rows of a project that also pours in a second named zone.
SchedElems ==
  Elems \cup
  { [Cluster_ID |-> c, Zone |-> "Zone-B", Casting_Date |-> d,
     Formwork_Cost_per_Set |-> CostOf(c),
     Replacement_Cost_per_Set |-> ReplacementOf(CostOf(c))] :
       c \in Clusters, d \in Days }

LeadTimes == {0, 2, 5, MaxLead}
Todays    == (StartDay - MaxBack) .. (StartDay + MaxDay)

InitSched == CoreIdle /\ RepIdle /\ SchedIdle /\ PlanIdle /\ LibIdle

\* generate_procurement_schedule(df_opt, df_clustered, lead) called on a day
\* `now`.  An empty records list has no Status column, and the lookup of it
\* raises.
Schedule(lead, now) ==
  /\ runs = 1
  /\ schedule_call = "none"
  /\ lead_time_days' = lead
  /\ today' = now
  /\ LET records == Records(elements, results, lead, now)
     IN  IF records = <<>>
         THEN schedule_call' = "raised" /\ df_schedule' = <<>>
         ELSE schedule_call' = "returned"
              /\ df_schedule' = SortSchedule(records)
  /\ elements' = CallerTable(elements, SchedulerFrame(elements))
  /\ UNCHANGED <<coreRest, repVars, planVars, libVars,
                 prev_call, prev_schedule>>

NextSched ==
  \/ \E e \in SchedElems : LoadElement(e)
  \/ \E zc \in ZoneCols : Optimize(1, Unlimited, zc, "Optimal")
  \/ \E lead \in LeadTimes, now \in Todays : Schedule(lead, now)

SpecSched == InitSched /\ [][NextSched]_vars

\* The wall-clock days on which a repeated call can run: the day of the
\* first call or the day after.
ClockDays == {StartDay, StartDay + 1}

\* generate_procurement_schedule called on whatever optimization table the
\* caller holds, an empty one included, on day StartDay.
ScheduleAny(lead) ==
  /\ schedule_call = "none"
  /\ lead_time_days' = lead
  /\ today' = StartDay
  /\ LET records == Records(elements, results, lead, StartDay)
     IN  IF records = <<>>
         THEN schedule_call' = "raised" /\ df_schedule' = <<>>
         ELSE schedule_call' = "returned"
              /\ df_schedule' = SortSchedule(records)
  /\ elements' = CallerTable(elements, SchedulerFrame(elements))
  /\ UNCHANGED <<coreRest, repVars, planVars, libVars,
                 prev_call, prev_schedule>>

\* The same call again, with the same tables and lead time, on day `now`.
\* The function reads the day from date.today(); it has no parameter for it.
ScheduleAgain(now) ==
  /\ schedule_call # "none"
  /\ prev_call = "none"
  /\ prev_call' = schedule_call
  /\ prev_schedule' = df_schedule
  /\ today' = now
  /\ LET records == Records(elements, results, lead_time_days, now)
     IN  IF records = <<>>
         THEN schedule_call' = "raised" /\ df_schedule' = <<>>
         ELSE schedule_call' = "returned"
              /\ df_schedule' = SortSchedule(records)
  /\ elements' = CallerTable(elements, SchedulerFrame(elements))
  /\ UNCHANGED <<coreRest, repVars, planVars, libVars,
                 lead_time_days>>

\* The tables are built before the first call and not changed after it.
LoadBeforeCall(e) == schedule_call = "none" /\ LoadElement(e)

OptimizeBeforeCall(zc) ==
  schedule_call = "none" /\ Optimize(1, Unlimited, zc, "Optimal")

NextCalls ==
  \/ \E e \in Elems : LoadBeforeCall(e)
  \/ \E zc \in ZoneCols : OptimizeBeforeCall(zc)
  \/ \E lead \in LeadTimes : ScheduleAny(lead)
  \/ \E now \in ClockDays : ScheduleAgain(now)

SpecCalls == InitSched /\ [][NextCalls]_vars

\* simulate_timeline(df_clustered, df_opt, reuse_cycle_days)
SimulateTimeline ==
  /\ runs = 1
  /\ sim_call = "none"
  /\ sim_call' = "returned"
  /\ df_timeline' = Timeline(elements, results, reuse_cycle_days)
  /\ elements' = CallerTable(elements, Converted(elements))
  /\ UNCHANGED <<coreRest, repVars, schedVars, libVars, kit_call, df_kitted>>

\* assign_kits(df_clustered, reuse_cycle_days)
AssignKits ==
  /\ sim_call = "returned"
  /\ kit_call = "none"
  /\ kit_call' = "returned"
  /\ df_kitted' = AssignKitsPlan(elements, reuse_cycle_days)
  /\ elements' = CallerTable(elements,
                             AssignKitsPlan(elements, reuse_cycle_days))
  /\ UNCHANGED <<coreRest, repVars, schedVars, libVars, sim_call,
                 df_timeline>>

\* The app's pipeline: detect_repetitions on the imported table, then the
\* optimizer, the timeline, the kit plan and the procurement schedule on the
\* clustered table.
InitPlan ==
  /\ CoreIdle /\ SchedIdle /\ PlanIdle /\ LibIdle
  /\ raw_elements \in [1 .. 1 -> Shapes]
  /\ tie_order = "first"
  /\ detections = 0
  /\ df_clustered = <<>>
  /\ cluster_summary = <<>>
  /\ prev_clustered = <<>>
  /\ prev_summary = <<>>

LoadClustered(e) == detections = 1 /\ LoadElement(e)

OptimizeClustered(R, K, zc) == detections = 1 /\ Optimize(R, K, zc, "Optimal")

ScheduleLast(lead) == kit_call = "returned" /\ Schedule(lead, StartDay)

NextPlan ==
  \/ DetectRepetitions
  \/ \E e \in Elems : LoadClustered(e)
  \/ \E R \in ReuseCycles, K \in {Unlimited, MaxK}, zc \in {None, "Zone"} :
        OptimizeClustered(R, K, zc)
  \/ SimulateTimeline
  \/ AssignKits
  \/ \E lead \in {0, MaxLead} : ScheduleLast(lead)

SpecPlan == InitPlan /\ [][NextPlan]_vars

\* ---- project_library ----

UpperCase == <<"A", "B", "C", "D", "E", "F", "G", "H", "I", "J", "K", "L", "M",
               "N", "O", "P", "Q", "R", "S", "T", "U", "V", "W", "X", "Y", "Z">>
LowerCase == <<"a", "b", "c", "d", "e", "f", "g", "h", "i", "j", "k", "l", "m",
               "n", "o", "p", "q", "r", "s", "t", "u", "v", "w", "x", "y", "z">>
Digits    == {"0", "1", "2", "3", "4", "5", "6", "7", "8", "9"}

\* Project names, as sequences of characters.
ProjectNames ==
  { <<"T", "1">>, <<"t", " ", "1">>, <<"t", "-", "-", "1">>, <<"B", "!">> }

\* The element tables saved, as their Type column.
LibTables == { <<Types[1]>>, <<Types[2]>>, <<Types[1], Types[2]>> }

\* str.lower()
Lower(name) ==
  [ k \in DOMAIN name |->
      IF \E u \in DOMAIN UpperCase : UpperCase[u] = name[k]
      THEN LowerCase[CHOOSE u \in DOMAIN UpperCase : UpperCase[u] = name[k]]
      ELSE name[k] ]

IsSlugChar(ch) ==
  ch \in Digits \/ \E l \in DOMAIN LowerCase : LowerCase[l] = ch

\* re.sub(r"[^a-z0-9]+", "_", text)
RECURSIVE SubUnderscore(_)
SubUnderscore(text) ==
  IF text = <<>> THEN <<>>
  ELSE LET rest == SubUnderscore(Tail(text))
       IN  IF IsSlugChar(Head(text)) THEN <<Head(text)>> \o rest
           ELSE IF rest # <<>> /\ Head(rest) = "_" THEN rest
                ELSE <<"_">> \o rest

\* str.strip("_") of a text without two adjacent underscores
Strip(text) ==
  LET a == IF text # <<>> /\ Head(text) = "_" THEN Tail(text) ELSE text
  IN  IF a # <<>> /\ a[Len(a)] = "_" THEN SubSeq(a, 1, Len(a) - 1) ELSE a

Slug(name) ==
  LET t == Strip(SubUnderscore(Lower(name)))
  IN  SubSeq(t, 1, IF Len(t) < SlugLen THEN Len(t) ELSE SlugLen)

\* strftime("%Y%m%d%H%M%S"): the clock reading down to whole seconds
SecondOf(now) == now \div TicksPerSecond

\* _make_id(name)
MakeId(name, now) == <<Slug(name), "_", SecondOf(now)>>

CsvPath(proj_id) == <<proj_id, "structural_elements.csv">>

\* _counts(df)
Counts(table) ==
  [ n_columns |-> Cardinality({ k \in DOMAIN table : table[k] = "Column" }),
    n_slabs   |-> Cardinality({ k \in DOMAIN table : table[k] = "Slab" }),
    n_total   |-> Len(table) ]

Entry(proj_id, name, table, now) ==
  [ id        |-> proj_id,
    name      |-> name,
    saved_at  |-> now,
    csv_path  |-> CsvPath(proj_id),
    n_columns |-> Counts(table).n_columns,
    n_slabs   |-> Counts(table).n_slabs,
    n_total   |-> Counts(table).n_total ]

\* df_elements.to_csv(csv_path): writes the file, over one already there
ToCsv(files, path, table) ==
  { f \in files : f.path # path } \cup { [path |-> path, content |-> table] }

\* shutil.rmtree(proj_dir)
RmTree(files, proj_id) == { f \in files : f.path[1] # proj_id }

RegistryIds == { registry[k].id : k \in DOMAIN registry }

\* save_project(name, ..., df_elements)
SaveProject(name, table) ==
  /\ Len(registry) < MaxSaved
  /\ LET proj_id == MakeId(name, clock)
     IN  /\ library_files' = ToCsv(library_files, CsvPath(proj_id), table)
         /\ registry' = Append(registry, Entry(proj_id, name, table, clock))
         /\ lib_arg' = proj_id
  /\ lib_call' = "save"
  /\ prev_registry' = registry
  /\ UNCHANGED clock
  /\ UNCHANGED <<coreVars, repVars, schedVars, planVars>>

\* delete_project(project_id)
DeleteProject(project_id) ==
  /\ registry' = SelectSeq(registry, LAMBDA p : p.id # project_id)
  /\ library_files' = IF project_id \in RegistryIds
                      THEN RmTree(library_files, project_id)
                      ELSE library_files
  /\ lib_call' = "delete"
  /\ lib_arg' = project_id
  /\ prev_registry' = registry
  /\ UNCHANGED clock
  /\ UNCHANGED <<coreVars, repVars, schedVars, planVars>>

\* Time passes between two calls.
Tick ==
  /\ clock < MaxClock
  /\ clock' = clock + 1
  /\ UNCHANGED <<registry, library_files, lib_call, lib_arg, prev_registry>>
  /\ UNCHANGED <<coreVars, repVars, schedVars, planVars>>

NextLib ==
  \/ \E name \in ProjectNames, table \in LibTables : SaveProject(name, table)
  \/ \E project_id \in RegistryIds : DeleteProject(project_id)
  \/ Tick

SpecLib == InitSched /\ [][NextLib]_vars

\* ------------------------------------------------------------ the claims
\* What follows restates the contract over the element table itself, without
\* the operators above: a pair's rows, its pours per day, its trailing load.

\* zone splitting is on when zone_col names a column of the table
SplitOn == zone_col = "Zone"

ClaimZone(e) ==
  IF ~SplitOn THEN "All"
  ELSE IF e.Zone = NullZone THEN "Default" ELSE e.Zone

PairRows(c, z) ==
  { i \in DOMAIN elements :
      elements[i].Cluster_ID = c /\ ClaimZone(elements[i]) = z }

TotalPours(c, z) == Cardinality(PairRows(c, z))

PoursOn(c, z, d) ==
  Cardinality({ i \in PairRows(c, z) : elements[i].Casting_Date = d })

FirstDay(c, z) ==
  CHOOSE d \in Days : PoursOn(c, z, d) > 0
                      /\ \A d2 \in Days : PoursOn(c, z, d2) > 0 => d <= d2
LastDay(c, z) ==
  CHOOSE d \in Days : PoursOn(c, z, d) > 0
                      /\ \A d2 \in Days : PoursOn(c, z, d2) > 0 => d2 <= d

\* pours of the pair on the R days that end on day d
WindowLoad(c, z, d, R) ==
  Cardinality({ i \in PairRows(c, z) :
                  /\ d - R + 1 <= elements[i].Casting_Date
                  /\ elements[i].Casting_Date <= d })

PeakLoad(c, z, R) ==
  LET loads == { WindowLoad(c, z, d, R) : d \in FirstDay(c, z) .. LastDay(c, z) }
  IN  CHOOSE m \in loads : \A n \in loads : n <= m

PeakDay(c, z) ==
  LET counts == { PoursOn(c, z, d) : d \in Days }
  IN  CHOOSE m \in counts : \A n \in counts : n <= m

CeilQuot(n, k)  == CHOOSE q \in 0 .. n : q * k >= n /\ (q = 0 \/ (q - 1) * k < n)
FloorQuot(n, k) == CHOOSE q \in 0 .. n : q * k <= n /\ (q + 1) * k > n

LifetimeBound(c, z) ==
  IF max_reuse_count > 0 THEN CeilQuot(TotalPours(c, z), max_reuse_count) ELSE 0

\* the pair's demand series, day by day from its first to its last pour
DemandSeries(c, z) ==
  [ k \in 1 .. (LastDay(c, z) - FirstDay(c, z) + 1) |->
      PoursOn(c, z, FirstDay(c, z) + k - 1) ]

Called == runs >= 1
Rows   == { results[k] : k \in DOMAIN results }

\* C1: for every (cluster, zone) pair and every reuse_cycle_days >= 1 the
\* returned Required_Sets is the larger of the peak trailing-window load and
\* the lifetime lower bound (0 when no lifetime limit is set).
C1_RequiredSetsIsPeakOrLifetimeBound ==
  (Called /\ reuse_cycle_days >= 1) =>
    \A r \in Rows :
      LET peak  == PeakLoad(r.Cluster_ID, r.Zone, reuse_cycle_days)
          bound == LifetimeBound(r.Cluster_ID, r.Zone)
      IN  r.Required_Sets = (IF peak >= bound THEN peak ELSE bound)

\* C2: with reuse_cycle_days = 0 and no lifetime limit, Required_Sets is the
\* pair's maximum single-day pour count.
C2_ZeroCycleIsPeakDay ==
  (Called /\ reuse_cycle_days = 0 /\ max_reuse_count = Unlimited) =>
    \A r \in Rows : r.Required_Sets = PeakDay(r.Cluster_ID, r.Zone)

\* C3: when the exact solve raises or ends with a status other than Optimal,
\* Required_Sets is what the direct sliding-window scan (seeded with the
\* lifetime lower bound) computes for the pair.
C3_FailedSolveFallsBackToScan ==
  (Called /\ solver # "Optimal") =>
    \A r \in Rows :
      r.Required_Sets =
        SlidingWindowFallback(DemandSeries(r.Cluster_ID, r.Zone),
                              reuse_cycle_days,
                              LifetimeBound(r.Cluster_ID, r.Zone))

\* C4: the ILP path and the sliding-window fallback path give the same
\* Required_Sets: what the path that ran returned is what the other path
\* computes for the same pair and configuration.
C4_ILPEqualsFallback ==
  Called =>
    \A r \in Rows :
      LET pours == DemandSeries(r.Cluster_ID, r.Zone)
          bound == LifetimeBound(r.Cluster_ID, r.Zone)
      IN  /\ solver = "Optimal" =>
               r.Required_Sets = SlidingWindowFallback(pours, reuse_cycle_days, bound)
          /\ solver = "Exception" =>
               r.Required_Sets = ILPOptimum(pours, reuse_cycle_days, bound)

\* C4 witness: under a lifetime limit, an Optimal solve returned a count that
\* only a window spanning several days explains.
C4_Witness ==
  /\ Called /\ solver = "Optimal" /\ max_reuse_count > 0
  /\ \E r \in Rows : /\ r.Required_Sets > PeakDay(r.Cluster_ID, r.Zone)
                     /\ r.Required_Sets > LifetimeBound(r.Cluster_ID, r.Zone)
                     /\ LifetimeBound(r.Cluster_ID, r.Zone) > 1

\* C5: every result row has Required_Sets <= Naive_Sets, the pair's pour count.
C5_RequiredAtMostNaive ==
  Called =>
    \A r \in Rows : /\ r.Naive_Sets = TotalPours(r.Cluster_ID, r.Zone)
                    /\ r.Required_Sets <= r.Naive_Sets

\* C5 witness: with a lifetime limit and zone splitting on, one row needs
\* fewer sets than pours and another needs one set per pour.
C5_Witness ==
  /\ Called /\ max_reuse_count > 0 /\ SplitOn
  /\ \E r \in Rows : r.Required_Sets < r.Naive_Sets /\ r.Required_Sets > 0
  /\ \E r \in Rows : r.Required_Sets = r.Naive_Sets

\* C6: with a lifetime limit K, every row has
\* Required_Sets >= ceil(total_pours / K), however the solve ended.
C6_RequiredAtLeastLifetimeBound ==
  (Called /\ max_reuse_count > 0) =>
    \A r \in Rows :
      r.Required_Sets >= CeilQuot(TotalPours(r.Cluster_ID, r.Zone), max_reuse_count)

\* C6 witness: the solve ended with a status other than Optimal and the
\* lifetime bound of a row with several pours is not a whole quotient.
C6_Witness ==
  /\ Called /\ max_reuse_count > 1 /\ solver = "Not Solved"
  /\ \E r \in Rows :
       /\ TotalPours(r.Cluster_ID, r.Zone) % max_reuse_count # 0
       /\ TotalPours(r.Cluster_ID, r.Zone) > max_reuse_count
       /\ r.Required_Sets = LifetimeBound(r.Cluster_ID, r.Zone)

RECURSIVE SumRequired(_, _)
SumRequired(table, c) ==
  IF table = <<>> THEN 0
  ELSE (IF Head(table).Cluster_ID = c THEN Head(table).Required_Sets ELSE 0)
       + SumRequired(Tail(table), c)

\* C7: for every cluster, Required_Sets summed over its zones in a run with
\* zone splitting is >= its Required_Sets in a run without zone splitting on
\* the same table, reuse_cycle_days and max_reuse_count.
C7_SplitSumAtLeastUnsplit ==
  (Called /\ SplitOn) =>
    \A outcome \in SolverOutcomes :
      LET unsplit == OptimizeFormworkSets(elements, hasReplacement,
                       reuse_cycle_days, max_reuse_count, None, outcome)
      IN  \A k \in DOMAIN unsplit :
            SumRequired(results, unsplit[k].Cluster_ID) >= unsplit[k].Required_Sets

\* the rows of the table that belong to the pair, in table order
OwnElements(c, z) ==
  SelectSeq(elements, LAMBDA e : e.Cluster_ID = c /\ ClaimZone(e) = z)

\* C8: the row of a pair is the row obtained from the pair's own elements
\* alone, so tables that agree on the pair agree on its row.
C8_RowDependsOnOwnElements ==
  Called =>
    \A r \in Rows :
      OptimizeFormworkSets(OwnElements(r.Cluster_ID, r.Zone), hasReplacement,
                           reuse_cycle_days, max_reuse_count, zone_col, solver)
        = << r >>

\* C8 witness: a result with rows of another cluster and of another zone of
\* the same cluster, the first table row belonging to neither.
C8_Witness ==
  /\ Called /\ Len(results) >= 3
  /\ \E r1, r2 \in Rows : r1.Cluster_ID = r2.Cluster_ID /\ r1.Zone # r2.Zone
  /\ \E r1, r2 \in Rows : r1.Cluster_ID # r2.Cluster_ID

ClaimReplacementCost(c) ==
  IF hasReplacement THEN ReplacementOf(CostOf(c)) ELSE CostOf(c)

\* C10: with a lifetime limit K, every row has
\* Sets_Written_Off = floor(total_pours / K),
\* Write_Off_Cost = Sets_Written_Off * replacement cost per set and
\* True_Total_Cost = Optimized_Procurement_Cost + Write_Off_Cost;
\* 23 pours with K = 10 write off 2 sets.
C10_WriteOffAccounting ==
  /\ SetsWrittenOff(23, 10) = 2
  /\ (Called /\ max_reuse_count > 0) =>
       \A r \in Rows :
         /\ r.Sets_Written_Off =
              FloorQuot(TotalPours(r.Cluster_ID, r.Zone), max_reuse_count)
         /\ r.Write_Off_Cost =
              r.Sets_Written_Off * ClaimReplacementCost(r.Cluster_ID)
         /\ r.True_Total_Cost = r.Optimized_Procurement_Cost + r.Write_Off_Cost

\* C10 witness: a row whose pour count is not a multiple of K writes a set
\* off at the replacement price.
C10_Witness ==
  /\ Called /\ max_reuse_count > 1 /\ hasReplacement
  /\ \E r \in Rows :
       /\ TotalPours(r.Cluster_ID, r.Zone) % max_reuse_count # 0
       /\ r.Sets_Written_Off >= 1
       /\ r.Write_Off_Cost > 0
       /\ r.True_Total_Cost > r.Optimized_Procurement_Cost

C12_CostFigures ==
  /\ CostReductionPct(0, 0)[1] = 0 /\ CostReductionPct(0, 0)[2] > 0
  /\ Called =>
       \A r \in Rows :
         /\ r.Optimized_Procurement_Cost = r.Required_Sets * CostOf(r.Cluster_ID)
         /\ r.Naive_Procurement_Cost =
              TotalPours(r.Cluster_ID, r.Zone) * CostOf(r.Cluster_ID)
         /\ r.Cost_Savings =
              r.Naive_Procurement_Cost - r.Optimized_Procurement_Cost
         /\ r.Cost_Reduction_Pct[2] > 0
         \* the fraction equals Cost_Savings * 100 / Naive_Procurement_Cost;
         \* both sides of the cross-multiplication are divided by 100
         /\ r.Cost_Reduction_Pct[1] % 100 = 0
         /\ (r.Cost_Reduction_Pct[1] \div 100) * r.Naive_Procurement_Cost =
              r.Cost_Savings * r.Cost_Reduction_Pct[2]

\* C12 witness: a row on which reuse saves part, not all, of the naive cost.
C12_Witness ==
  /\ Called
  /\ \E r \in Rows : /\ r.Cost_Savings > 0
                     /\ r.Optimized_Procurement_Cost > 0
                     /\ r.Cost_Reduction_Pct[1] > 0

\* C13: the demand series of every pair has one entry per calendar day from
\* the pair's earliest to its latest cast date, each entry the number of the
\* pair's elements cast that day (0 when none); it sums to the pair's element
\* count, reported as Naive_Sets; a single element yields the series <<1>>.
C13_DenseDemandSeries ==
  Called =>
    \A r \in Rows :
      LET c      == r.Cluster_ID
          z      == r.Zone
          series == PoursArray(elements, zone_col, <<c, z>>)
      IN  /\ Len(series) = LastDay(c, z) - FirstDay(c, z) + 1
          /\ \A k \in 1 .. Len(series) :
               series[k] = PoursOn(c, z, FirstDay(c, z) + k - 1)
          /\ SumSeq(series) = TotalPours(c, z)
          /\ r.Naive_Sets = TotalPours(c, z)
          /\ TotalPours(c, z) = 1 => series = <<1>>

\* C13 witness: a pair that pours on its first and last day and not between.
C13_Witness ==
  /\ Called
  /\ \E r \in Rows :
       LET series == PoursArray(elements, zone_col, <<r.Cluster_ID, r.Zone>>)
       IN  Len(series) >= 3 /\ \E k \in 1 .. Len(series) : series[k] = 0

\* the (Cluster_ID, zone label) pairs that have at least one element
ClaimPairs ==
  { <<elements[i].Cluster_ID, ClaimZone(elements[i])>> : i \in DOMAIN elements }

\* C14: the result has exactly one row for each (Cluster_ID, zone label) pair
\* with at least one element and no other row.
C14_OneRowPerPopulatedPair ==
  Called =>
    /\ { <<r.Cluster_ID, r.Zone>> : r \in Rows } = ClaimPairs
    /\ Len(results) = Cardinality(ClaimPairs)
    /\ \A r \in Rows : TotalPours(r.Cluster_ID, r.Zone) >= 1

\* C14 witness: zone splitting is on, one cluster has rows for both of its
\* zones and another cluster has elements in one zone only.
C14_Witness ==
  /\ Called /\ SplitOn
  /\ \E c1, c2 \in Clusters :
       /\ <<c1, "Zone-A">> \in ClaimPairs /\ <<c1, "Default">> \in ClaimPairs
       /\ <<c2, "Default">> \in ClaimPairs /\ <<c2, "Zone-A">> \notin ClaimPairs
       /\ Len(results) = 3

\* C15: with zone splitting disabled (zone_col None, or naming a column the
\* table lacks) the result has exactly one row per cluster, its Zone is
\* "All", and it sizes all elements of the cluster together.
C15_UnsplitIsOneZoneAll ==
  (Called /\ (zone_col = None \/ zone_col \notin Columns)) =>
    /\ \A r \in Rows :
         /\ r.Zone = "All"
         /\ r.Naive_Sets =
              Cardinality({ i \in DOMAIN elements :
                              elements[i].Cluster_ID = r.Cluster_ID })
    /\ { r.Cluster_ID : r \in Rows } =
         { elements[i].Cluster_ID : i \in DOMAIN elements }
    /\ Len(results) =
         Cardinality({ elements[i].Cluster_ID : i \in DOMAIN elements })

\* C15 witness: zone_col names a missing column and the elements of one
\* cluster carry different Zone values.
C15_Witness ==
  /\ Called /\ zone_col = "Area"
  /\ \E i, j \in DOMAIN elements :
       /\ elements[i].Cluster_ID = elements[j].Cluster_ID
       /\ elements[i].Zone # elements[j].Zone
  /\ \E r \in Rows : r.Naive_Sets >= 2

\* ------------------------------------------------- detect_repetitions claims
Detected == detections >= 1

SameShape(a, b) ==
  /\ a.Type = b.Type /\ a.Length = b.Length
  /\ a.Width = b.Width /\ a.Height = b.Height

Members(id) == { i \in DOMAIN df_clustered : df_clustered[i].Cluster_ID = id }

RECURSIVE SumFrequency(_)
SumFrequency(summary) ==
  IF summary = <<>> THEN 0
  ELSE summary[1].Frequency + SumFrequency(Tail(summary))

\* C16: detect_repetitions gives every element exactly one Cluster_ID, an id
\* of the cluster summary; two elements get the same Cluster_ID iff their
\* (Type, Length, Width, Height) are identical; the Frequency values of the
\* summary sum to the number of elements.
C16_ClusterIffSameShape ==
  Detected =>
    /\ Len(df_clustered) = Len(raw_elements)
    /\ \A i \in DOMAIN df_clustered :
         /\ SameShape(df_clustered[i], raw_elements[i])
         /\ Cardinality({ k \in DOMAIN cluster_summary :
              cluster_summary[k].Cluster_ID = df_clustered[i].Cluster_ID }) = 1
    /\ \A i, j \in DOMAIN df_clustered :
         (df_clustered[i].Cluster_ID = df_clustered[j].Cluster_ID)
           <=> SameShape(raw_elements[i], raw_elements[j])
    /\ SumFrequency(cluster_summary) = Len(raw_elements)
    /\ \A k \in DOMAIN cluster_summary :
         cluster_summary[k].Frequency =
           Cardinality(Members(cluster_summary[k].Cluster_ID))

\* C16 witness: two elements of one shape share a cluster, and two elements
\* that differ only in Height, and two that differ only in Type, do not.
C16_Witness ==
  /\ Detected
  /\ \E i, j \in DOMAIN raw_elements :
       i # j /\ SameShape(raw_elements[i], raw_elements[j])
  /\ \E i, j \in DOMAIN raw_elements :
       /\ raw_elements[i].Height # raw_elements[j].Height
       /\ raw_elements[i].Type = raw_elements[j].Type
       /\ raw_elements[i].Length = raw_elements[j].Length
       /\ raw_elements[i].Width = raw_elements[j].Width
  /\ \E i, j \in DOMAIN raw_elements :
       raw_elements[i].Type # raw_elements[j].Type

Reverse(s) == [ i \in DOMAIN s |-> s[Len(s) + 1 - i] ]

\* C17: the k-th row of the cluster summary is numbered CL-00k, a
\* lower-numbered cluster never has fewer members than a higher-numbered one,
\* and a second run over the same elements, or a run over the same elements
\* in another row order, numbers the clusters the same way.
C17_NumberedByDescendingCount ==
  /\ Detected =>
       /\ \A k \in DOMAIN cluster_summary :
            k <= 9 => cluster_summary[k].Cluster_ID = <<"CL-", 0, 0, k>>
       /\ \A k, l \in DOMAIN cluster_summary :
            k < l => Cardinality(Members(cluster_summary[k].Cluster_ID))
                       >= Cardinality(Members(cluster_summary[l].Cluster_ID))
       /\ ClusterSummary(Reverse(raw_elements), tie_order) = cluster_summary
  /\ detections = 2 =>
       /\ cluster_summary = prev_summary
       /\ df_clustered = prev_clustered

\* C17 witness: on the second run, a cluster of two members is numbered
\* before two clusters of one member each although its key sorts after one
\* of theirs.
C17_Witness ==
  /\ detections = 2
  /\ Len(cluster_summary) = 3
  /\ cluster_summary[1].Frequency = 2
  /\ cluster_summary[2].Frequency = 1
  /\ cluster_summary[3].Frequency = 1
  /\ KeyBefore(cluster_summary[2].Key, cluster_summary[1].Key)

\* ------------------------------------------ procurement schedule claims
Scheduled == schedule_call = "returned"

ScheduleRows == { df_schedule[i] : i \in DOMAIN df_schedule }

\* The day number (days since 1970-01-01) a written date <<y, m, d>> names.
DayNumber(date) ==
  LET y   == IF date[2] <= 2 THEN date[1] - 1 ELSE date[1]
      era == y \div 400
      yoe == y - era * 400
      mp  == IF date[2] > 2 THEN date[2] - 3 ELSE date[2] + 9
      doy == ((153 * mp + 2) \div 5) + date[3] - 1
      doe == yoe * 365 + (yoe \div 4) - (yoe \div 100) + doy
  IN  era * 146097 + doe - 719468

WellFormedDate(date) ==
  /\ Len(date) = 3
  /\ date[1] \in 1000 .. 9999 /\ date[2] \in 1 .. 12 /\ date[3] \in 1 .. 31

\* C18: in every schedule row First_Pour_Date is the earliest cast date among
\* the elements of the row's own (cluster, zone) pair, Order_By_Date is
\* lead_time_days days before it and Days_Until_Order is the signed number
\* of days from today to Order_By_Date; first pour 2026-03-10, lead time 5,
\* today 2026-03-08 give order-by 2026-03-05 and -3 days.
C18_OrderByIsFirstPourMinusLead ==
  Scheduled =>
    \A r \in ScheduleRows :
      /\ WellFormedDate(r.First_Pour_Date) /\ WellFormedDate(r.Order_By_Date)
      /\ DayNumber(r.First_Pour_Date) =
           StartDay + FirstDay(r.Cluster_ID, r.Zone)
      /\ DayNumber(r.Order_By_Date) =
           DayNumber(r.First_Pour_Date) - lead_time_days
      /\ r.Days_Until_Order = DayNumber(r.Order_By_Date) - today
      /\ ( /\ r.First_Pour_Date = <<2026, 3, 10>>
           /\ lead_time_days = 5
           /\ today = DayNumber(<<2026, 3, 8>>) )
         => (r.Order_By_Date = <<2026, 3, 5>> /\ r.Days_Until_Order = -3)

\* C18 witness: the scenario of the claim, on a row of a zone whose cluster
\* has an earlier pour in another zone.
C18_Witness ==
  /\ Scheduled /\ lead_time_days = 5 /\ today = DayNumber(<<2026, 3, 8>>)
  /\ \E r \in ScheduleRows :
       /\ r.First_Pour_Date = <<2026, 3, 10>>
       /\ r.Zone = "Zone-A"
       /\ \E i \in DOMAIN elements :
            /\ elements[i].Cluster_ID = r.Cluster_ID
            /\ elements[i].Casting_Date < 2

\* C19: every schedule row has exactly one of the three statuses: Urgent iff
\* Days_Until_Order < 0, Order Soon iff 0 <= Days_Until_Order <=
\* lead_time_days, Planned otherwise.
C19_StatusByDaysUntilOrder ==
  Scheduled =>
    \A r \in ScheduleRows :
      /\ r.Status \in {"URGENT", "ORDER SOON", "PLANNED"}
      /\ r.Status = "URGENT" <=> r.Days_Until_Order < 0
      /\ r.Status = "ORDER SOON" <=>
           (0 <= r.Days_Until_Order /\ r.Days_Until_Order <= lead_time_days)
      /\ r.Status = "PLANNED" <=> r.Days_Until_Order > lead_time_days

\* C19 witness: a zero lead time with one row overdue (Urgent), one row due
\* today (Order Soon, both boundaries at once) and one row due tomorrow
\* (Planned).
C19_Witness ==
  /\ Scheduled /\ lead_time_days = 0
  /\ \E r \in ScheduleRows : r.Days_Until_Order = -1 /\ r.Status = "URGENT"
  /\ \E r \in ScheduleRows : r.Days_Until_Order = 0 /\ r.Status = "ORDER SOON"
  /\ \E r \in ScheduleRows : r.Days_Until_Order = 1 /\ r.Status = "PLANNED"

\* The upper boundary under a positive lead time: a row exactly
\* lead_time_days away is Order Soon, a row one day further is Planned.
C19_PositiveLeadReached ==
  /\ Scheduled /\ lead_time_days > 0
  /\ \E r \in ScheduleRows :
       r.Days_Until_Order = lead_time_days /\ r.Status = "ORDER SOON"
  /\ \E r \in ScheduleRows :
       r.Days_Until_Order = lead_time_days + 1 /\ r.Status = "PLANNED"

Severity(r) ==
  IF r.Days_Until_Order < 0 THEN 0
  ELSE IF r.Days_Until_Order <= lead_time_days THEN 1 ELSE 2

\* C20: the schedule lists all Urgent rows, then all Order Soon rows, then
\* all Planned rows, and within one status the order-by dates never
\* decrease.
C20_SortedBySeverityThenOrderBy ==
  Scheduled =>
    \A i, j \in DOMAIN df_schedule :
      i < j =>
        /\ Severity(df_schedule[i]) <= Severity(df_schedule[j])
        /\ df_schedule[i].Status = df_schedule[j].Status =>
             DayNumber(df_schedule[i].Order_By_Date)
               <= DayNumber(df_schedule[j].Order_By_Date)

\* C20 witness: three rows of two statuses; the two Urgent rows have order-by
\* dates in February and March, and the row listed first is not the first
\* row of the optimization result.
C20_Witness ==
  /\ Scheduled /\ Len(df_schedule) = 3
  /\ df_schedule[1].Status = "URGENT" /\ df_schedule[2].Status = "URGENT"
  /\ df_schedule[3].Status = "ORDER SOON"
  /\ df_schedule[1].Order_By_Date[2] = 2
  /\ df_schedule[2].Order_By_Date[2] = 3
  /\ <<df_schedule[1].Cluster_ID, df_schedule[1].Zone>> #
       <<results[1].Cluster_ID, results[1].Zone>>

\* C21: after generate_procurement_schedule has run on the optimization
\* result of the same elements, the schedule has exactly one record for every
\* (Cluster_ID, Zone) row of that result, rows of the "Default" zone
\* included, with Sets_To_Order = Required_Sets and Estimated_Cost =
\* Optimized_Procurement_Cost of the row.
C21_OneRecordPerOptimizationRow ==
  schedule_call # "none" =>
    /\ schedule_call = "returned"
    /\ Len(df_schedule) = Len(results)
    /\ \A k \in DOMAIN results :
         Cardinality({ i \in DOMAIN df_schedule :
           /\ df_schedule[i].Cluster_ID = results[k].Cluster_ID
           /\ df_schedule[i].Zone = results[k].Zone
           /\ df_schedule[i].Sets_To_Order = results[k].Required_Sets
           /\ df_schedule[i].Estimated_Cost =
                results[k].Optimized_Procurement_Cost }) = 1

\* C22: two calls of generate_procurement_schedule with the same
\* optimization result, elements and lead time end the same way and return
\* the same schedule, whatever the wall-clock days on which they run.
C22_SameArgumentsSameSchedule ==
  prev_call # "none" =>
    /\ schedule_call = prev_call
    /\ df_schedule = prev_schedule

\* C29: when no schedule record is produced (the optimization result has no
\* rows, or none of its rows matches an element) the call returns an empty
\* schedule and does not raise.
C29_EmptyScheduleNotAnError ==
  (schedule_call # "none" /\ df_schedule = <<>>) => schedule_call = "returned"

\* C29 on an empty optimization result alone.
C29_EmptyResultNotAnError ==
  (schedule_call # "none" /\ results = <<>>) => schedule_call = "returned"

\* ------------------------------------------------------ plan claims
\* C23: no call of detect_repetitions, optimize_formwork_sets,
\* simulate_timeline, assign_kits or generate_procurement_schedule changes
\* the element table it is given, and none of the calls that take the
\* optimization table changes that table.
C23_CallsLeaveTablesUnchanged ==
  [][ /\ detections' # detections => raw_elements' = raw_elements
      /\ ( \/ runs' # runs \/ sim_call' # sim_call
           \/ kit_call' # kit_call \/ schedule_call' # schedule_call )
         => elements' = elements
      /\ ( \/ sim_call' # sim_call \/ kit_call' # kit_call
           \/ schedule_call' # schedule_call )
         => results' = results ]_vars

\* C23 witness: all five operations have run, on an imported table with a
\* row, an element table with two clusters and an optimization table with
\* three rows.
C23_Witness ==
  /\ detections = 1 /\ runs = 1 /\ sim_call = "returned"
  /\ kit_call = "returned" /\ schedule_call = "returned"
  /\ Len(raw_elements) >= 1 /\ Len(results) = 3
  /\ \E i, j \in DOMAIN elements :
       elements[i].Cluster_ID # elements[j].Cluster_ID

Kitted == kit_call = "returned"

KitsOf(c) == { df_kitted[i].Kit_Number :
                 i \in { j \in DOMAIN df_kitted : df_kitted[j].Cluster_ID = c } }

\* C25: with zone splitting off and no lifetime limit, for every cluster and
\* every reuse_cycle_days >= 0 the number of kits assign_kits creates for the
\* cluster equals the cluster's Required_Sets.
C25_KitsEqualRequiredSets ==
  (Kitted /\ zone_col = None /\ max_reuse_count = Unlimited) =>
    \A r \in Rows : Cardinality(KitsOf(r.Cluster_ID)) = r.Required_Sets

\* C25 for reuse_cycle_days >= 1 only.
C25_KitsEqualRequiredSetsPositiveCycle ==
  (Kitted /\ zone_col = None /\ max_reuse_count = Unlimited
          /\ reuse_cycle_days >= 1) =>
    \A r \in Rows : Cardinality(KitsOf(r.Cluster_ID)) = r.Required_Sets

\* uses of one kit of cluster c
UsesOf(c, k) ==
  { i \in DOMAIN df_kitted :
      df_kitted[i].Cluster_ID = c /\ df_kitted[i].Kit_Number = k }

\* C26: in the kit plan every element has one kit, rows with one Kit_ID
\* belong to one cluster, two uses of the same kit are on different rows at
\* least reuse_cycle_days days apart, a kit numbered k > 1 is first used only
\* on a day on which every lower-numbered kit of the cluster was used less
\* than reuse_cycle_days days before, and the kit numbers of a cluster are
\* 1 .. n.
C26_KitPlanIsSafe ==
  Kitted =>
    /\ Len(df_kitted) = Len(elements)
    /\ \A i, j \in DOMAIN df_kitted :
         df_kitted[i].Kit_ID = df_kitted[j].Kit_ID =>
           /\ df_kitted[i].Cluster_ID = df_kitted[j].Cluster_ID
           /\ df_kitted[i].Kit_Number = df_kitted[j].Kit_Number
           /\ (i # j /\ df_kitted[i].Casting_Date <= df_kitted[j].Casting_Date)
                => df_kitted[j].Casting_Date - df_kitted[i].Casting_Date
                     >= reuse_cycle_days
    /\ \A i, j \in DOMAIN df_kitted :
         ( /\ df_kitted[i].Cluster_ID = df_kitted[j].Cluster_ID
           /\ df_kitted[i].Kit_Number = df_kitted[j].Kit_Number )
           => df_kitted[i].Kit_ID = df_kitted[j].Kit_ID
    /\ \A c \in Clusters :
         /\ KitsOf(c) = 1 .. Cardinality(KitsOf(c))
         /\ \A k \in KitsOf(c) : \A lower \in 1 .. (k - 1) :
              LET first == SetMin({ df_kitted[i].Casting_Date : i \in UsesOf(c, k) })
              IN  \E i \in UsesOf(c, lower) :
                    /\ df_kitted[i].Casting_Date <= first
                    /\ first - df_kitted[i].Casting_Date < reuse_cycle_days

\* C26 witness: a cluster with two kits, one of them reused exactly
\* reuse_cycle_days days after its previous use.
C26_Witness ==
  /\ Kitted /\ reuse_cycle_days >= 1
  /\ \E c \in Clusters :
       /\ Cardinality(KitsOf(c)) = 2
       /\ \E i, j \in UsesOf(c, 1) :
            df_kitted[j].Casting_Date - df_kitted[i].Casting_Date
              = reuse_cycle_days

Simulated == sim_call = "returned"

RECURSIVE SumAllRequired(_)
SumAllRequired(table) ==
  IF table = <<>> THEN 0
  ELSE table[1].Required_Sets + SumAllRequired(Tail(table))

\* C27: on every day of the timeline simulated from the optimizer's own
\* result the sets in use do not exceed the sets available, and the sets
\* available are the sum of Required_Sets over all rows of the result.
C27_TimelineWithinInventory ==
  Simulated =>
    \A k \in DOMAIN df_timeline :
      /\ df_timeline[k].Required_Sets <= df_timeline[k].Available_Sets
      /\ df_timeline[k].Available_Sets = SumAllRequired(results)

\* C27 with zone splitting off.
C27_TimelineWithinInventoryUnsplit ==
  (Simulated /\ zone_col = None) =>
    \A k \in DOMAIN df_timeline :
      /\ df_timeline[k].Required_Sets <= df_timeline[k].Available_Sets
      /\ df_timeline[k].Available_Sets = SumAllRequired(results)

\* an assignment of the pair's pours to the sets 1 .. n under which no set
\* is used twice within reuse_cycle_days days nor more than
\* max_reuse_count times
ValidAssignment(f, pours, n) ==
  /\ \A i, j \in pours :
       (i # j /\ f[i] = f[j]) =>
         \/ elements[i].Casting_Date - elements[j].Casting_Date
              >= reuse_cycle_days
         \/ elements[j].Casting_Date - elements[i].Casting_Date
              >= reuse_cycle_days
  /\ \A s \in 1 .. n :
       Cardinality({ i \in pours : f[i] = s }) <= max_reuse_count

Sufficient(r) ==
  LET pours == Mask(elements, zone_col, <<r.Cluster_ID, r.Zone>>)
  IN  \E f \in [pours -> 1 .. r.Required_Sets] :
        ValidAssignment(f, pours, r.Required_Sets)

\* C28: for every reuse_cycle_days >= 1 and lifetime limit K >= 1 the pours
\* of every pair can be assigned to Required_Sets sets so that no set is
\* used twice within reuse_cycle_days days and none more than K times.
C28_RequiredSetsSuffice ==
  (Called /\ reuse_cycle_days >= 1 /\ max_reuse_count >= 1) =>
    \A r \in Rows : Sufficient(r)

\* C28 when the solver ends Optimal or raises
C28_RequiredSetsSufficeWhenSolved ==
  (Called /\ reuse_cycle_days >= 1 /\ max_reuse_count >= 1
     /\ solver # "Not Solved") =>
    \A r \in Rows : Sufficient(r)

\* the replacement costs supplied for the rows of a pair
PairReplacementCosts(c, z) ==
  IF hasReplacement
  THEN { elements[i].Replacement_Cost_per_Set :
           i \in Mask(elements, zone_col, <<c, z>>) }
  ELSE {NaN}

PairFormworkCost(c, z) ==
  elements[SetMin(Mask(elements, zone_col, <<c, z>>))].Formwork_Cost_per_Set

\* C24: Write_Off_Cost of a pair is priced at the pair's
\* Replacement_Cost_per_Set when one is supplied, and at the pair's
\* Formwork_Cost_per_Set when none is (column absent or value missing).
C24_ReplacementCostDefaultsToFormworkCost ==
  Called =>
    \A r \in Rows :
      LET supplied == PairReplacementCosts(r.Cluster_ID, r.Zone)
      IN  /\ supplied = {NaN} =>
               r.Write_Off_Cost
                 = r.Sets_Written_Off * PairFormworkCost(r.Cluster_ID, r.Zone)
          /\ (\E v \in supplied : supplied = {v} /\ v # NaN) =>
               r.Write_Off_Cost
                 = r.Sets_Written_Off * (CHOOSE v \in supplied : TRUE)

\* C24 on tables in which every row has a replacement cost, or none has the
\* column
C24_ReplacementCostWhenNoValueMissing ==
  (Called /\ (hasReplacement =>
                \A i \in DOMAIN elements :
                  elements[i].Replacement_Cost_per_Set # NaN)) =>
    \A r \in Rows :
      r.Write_Off_Cost
        = r.Sets_Written_Off
            * (IF hasReplacement
               THEN CHOOSE v \in PairReplacementCosts(r.Cluster_ID, r.Zone) : TRUE
               ELSE PairFormworkCost(r.Cluster_ID, r.Zone))

\* C30: after any sequence of save_project and delete_project calls the ids
\* of the registry entries are pairwise distinct, every entry's stored CSV is
\* the table it was saved with, and delete_project(id) removes only the
\* entry with that id.
C30_SavedProjectsKeepIdentity ==
  /\ \A i, j \in DOMAIN registry :
       i # j => registry[i].id # registry[j].id
  /\ \A i \in DOMAIN registry :
       \E f \in library_files :
         /\ f.path = registry[i].csv_path
         /\ Counts(f.content).n_columns = registry[i].n_columns
         /\ Counts(f.content).n_slabs = registry[i].n_slabs
         /\ Counts(f.content).n_total = registry[i].n_total
  /\ lib_call = "delete" => Len(registry) >= Len(prev_registry) - 1

\* the three parts of C30, one by one
C30_IdsAreDistinct ==
  \A i, j \in DOMAIN registry : i # j => registry[i].id # registry[j].id

C30_EveryProjectKeepsItsCsv ==
  \A i \in DOMAIN registry :
    \E f \in library_files :
      /\ f.path = registry[i].csv_path
      /\ Counts(f.content).n_columns = registry[i].n_columns
      /\ Counts(f.content).n_slabs = registry[i].n_slabs
      /\ Counts(f.content).n_total = registry[i].n_total

C30_DeleteRemovesOneEntry ==
  lib_call = "delete" => Len(registry) >= Len(prev_registry) - 1

\* C30 for a registry whose ids are distinct
C30_DistinctIdsKeepTheirCsv ==
  C30_IdsAreDistinct =>
    /\ C30_EveryProjectKeepsItsCsv
    /\ lib_call = "delete" =>
         registry = SelectSeq(prev_registry, LAMBDA p : p.id # lib_arg)
====
